---- MODULE Spec2Model ----
(***************************************************************************)
(* Model of scripts/generate.py: the generator of a referentially          *)
(* consistent stream of ledger events (deposit, withdrawal, dispute,       *)
(* resolve, chargeback).                                                   *)
(*                                                                         *)
(* A record is the tuple of the comma-separated fields of its line:        *)
(*   <<"deposit", client, tx, amount>>   (4 fields)                        *)
(*   <<"dispute", client, tx>>           (3 fields)                        *)
(* A command-line argument is the sequence of the code points of its       *)
(* characters: "-1" is <<45, 49>>.                                         *)
(* A draw of random.random() is an integer number of 1/DrawUnits, so a     *)
(* draw r stands for the float r / DrawUnits in [0, 1).  An amount is an   *)
(* integer number of 1/10^4 (four decimal places).                         *)
(***************************************************************************)
EXTENDS Integers, Sequences, FiniteSets, TLC

VARIABLES
    argv,             \* sys.argv[1:], each argument a sequence of code points
    pc,               \* position of the script
    num_records,      \* int(sys.argv[1])
    range_next,       \* next value the iterator of range(num_records) yields
    tx_id,            \* loop variable (-1 before the first iteration)
    client_id,
    max_client_id,
    disputed_tx_ids,  \* list of open disputes
    output,           \* list of formatted records
    stdout,           \* lines written to standard output
    exit_status,      \* -1 while running, then the process exit status
                      \* (the traceback of an uncaught error goes to stderr,
                      \* which is not part of the state)
    introduced,       \* history: client ids produced by the new-client branch
    branch            \* history: client-selection branch of the latest step

vars == <<argv, pc, num_records, range_next, tx_id, client_id, max_client_id,
          disputed_tx_ids, output, stdout, exit_status, introduced, branch>>

----------------------------------------------------------------------------
(* Bounds of the model *)

MaxRecords == 2

MaxArgs == 2

(* Length of the single longer run of DeepSpec *)
LongRun == MaxRecords + 1

(* the decimal text of a natural number, in the digits "0".."9" *)
RECURSIVE Decimal(_)
Decimal(n) ==
    IF n < 10 THEN <<48 + n>>
    ELSE Decimal(n \div 10) \o <<48 + (n % 10)>>

(* Texts the command-line arguments take: the counts 0..MaxRecords; "-1" *)
(* (range(-1) is empty like range(0)); "\t1", a count after a tab; the    *)
(* ARABIC-INDIC DIGIT ZERO alone; and "abc", "1.5" and "", which int()    *)
(* rejects                                                                *)
ArgValues ==
    {Decimal(n) : n \in 0..MaxRecords}
        \cup {<<45, 49>>, <<9, 49>>, <<1632>>, <<97, 98, 99>>,
              <<49, 46, 53>>, <<>>}

(* Resolution of a draw of random.random().  The amount of a draw r is  *)
(* (r + DrawUnits) / 3 units of 10^-4 before rounding, never half-way     *)
(* between two units: on such a decimal tie the error of the binary       *)
(* float, not the decimal value, would decide which way round() goes.     *)
DrawUnits == 3 * 10^6

(* Draws used at the probability tests: both sides of 0.1 and of 0.75 *)
BranchDraws == {0, 299999, 300000, 2249999, 2250000, 2999999}

(* Draws used for the amount: lowest, one that rounds up, the highest *)
AmountDraws == {0, 370370, 2999999}

----------------------------------------------------------------------------
(* Pure helpers *)

(* min written for max *)
Max_Min(a, b) == IF a <= b THEN a ELSE b

Max(a, b) == IF a >= b THEN a ELSE b

Last(s) == s[Len(s)]

(* random.randint(a, b): any integer of the closed interval *)
randint(a, b) == a..b

(* off by one: the range yields n as well *)
InRange_OffByOne(i, n) == i <= n

(* range(n) yields i next iff i < n *)
InRange(i, n) == i < n

(* The characters int() drops around a number (CPython 3.11): tab to     *)
(* carriage return, space, NEL, no-break space and the Unicode spaces     *)
WhitespaceChars ==
    (9..13) \cup {32, 133, 160, 5760} \cup (8192..8202)
        \cup {8232, 8233, 8239, 8287, 12288}

(* The characters with the decimal value 0 (Unicode 14.0, category Nd);  *)
(* each is followed by the characters with the values 1 to 9              *)
DigitZeros ==
    {48, 1632, 1776, 1984, 2406, 2534, 2662, 2790, 2918, 3046, 3174,
     3302, 3430, 3558, 3664, 3792, 3872, 4160, 4240, 6112, 6160, 6470,
     6608, 6784, 6800, 6992, 7088, 7232, 7248, 42528, 43216, 43264,
     43472, 43504, 43600, 44016, 65296, 66720, 68912, 69734, 69872,
     69942, 70096, 70384, 70736, 70864, 71248, 71360, 71472, 71904,
     72016, 72784, 73040, 73120, 92768, 92864, 93008, 120782, 120792,
     120802, 120812, 120822, 123200, 123632, 125264, 130032}

(* Longest run of digits int() converts (sys.get_int_max_str_digits()) *)
MaxStrDigits == 4300

IsDigit(c) == \E z \in DigitZeros : c \in z..(z + 9)

DigitValue(c) == c - (CHOOSE z \in DigitZeros : c \in z..(z + 9))

(* a text without the whitespace around it *)
RECURSIVE Strip(_)
Strip(s) ==
    IF s = <<>> THEN s
    ELSE IF Head(s) \in WhitespaceChars THEN Strip(Tail(s))
    ELSE IF s[Len(s)] \in WhitespaceChars
         THEN Strip(SubSeq(s, 1, Len(s) - 1))
    ELSE s

(* a text without its sign, "+" or "-" *)
Unsigned(s) ==
    IF s # <<>> /\ Head(s) \in {43, 45} THEN Tail(s) ELSE s

(* digits, with single underscores allowed between two digits *)
IsDigitGroup(s) ==
    /\ s # <<>>
    /\ \A i \in DOMAIN s :
           \/ IsDigit(s[i])
           \/ /\ s[i] = 95
              /\ i > 1
              /\ i < Len(s)
              /\ IsDigit(s[i - 1])
              /\ IsDigit(s[i + 1])

(* number of digits of a text *)
DigitCount(s) == Cardinality({i \in DOMAIN s : IsDigit(s[i])})

(* value of a digit group *)
RECURSIVE DigitGroupValue(_)
DigitGroupValue(s) ==
    IF s = <<>> THEN 0
    ELSE LET front == SubSeq(s, 1, Len(s) - 1)
             c == s[Len(s)]
         IN  IF c = 95 THEN DigitGroupValue(front)
             ELSE 10 * DigitGroupValue(front) + DigitValue(c)

(* int(s) returns a value: s is, between whitespace, an optional sign    *)
(* and a digit group of at most MaxStrDigits digits; otherwise int(s)     *)
(* raises ValueError                                                      *)
IntAccepts(s) ==
    LET group == Unsigned(Strip(s))
    IN  IsDigitGroup(group) /\ DigitCount(group) <= MaxStrDigits

(* int(s) for a text it accepts *)
int(s) ==
    LET t == Strip(s)
    IN  IF Head(t) = 45 THEN 0 - DigitGroupValue(Unsigned(t))
        ELSE DigitGroupValue(Unsigned(t))

(* the test admits too many arguments *)
BadArgCount_OnlyTooFew(argc) == argc < 2

(* len(sys.argv) != 2 *)
BadArgCount(argc) == argc # 2

(* random.random() < 0.75 *)
NewClientDraw(r) == r * 100 < 75 * DrawUnits

(* random.random() < 0.1 *)
OccasionalDraw(r) == r * 10 < 1 * DrawUnits

(* round(x / d) to the nearest integer, ties to even *)
RoundHalfEven(x, d) ==
    LET q == x \div d
        rem == x % d
    IN  IF 2 * rem < d THEN q
        ELSE IF 2 * rem > d THEN q + 1
        ELSE IF q % 2 = 0 THEN q ELSE q + 1

(* round((r + 1) * 100, 4), in units of 10^-4: the value is               *)
(* (r + DrawUnits) * 100 * 10^4 / DrawUnits, with the fraction reduced     *)
Amount(r) == RoundHalfEven(r + DrawUnits, DrawUnits \div (100 * 10^4))

(* keys of the lookup table *)
TransactionKinds == {"deposit", "withdraw"}

(* the closures with clientId and txId in each other's place *)
basic_transactions_Swapped(kind, clientId, txId, amount) ==
    IF kind = "deposit"
    THEN <<"deposit", txId, clientId, amount>>
    ELSE <<"withdrawal", txId, clientId, amount>>

(* the lookup table of formatting closures *)
basic_transactions(kind, clientId, txId, amount) ==
    IF kind = "deposit"
    THEN <<"deposit", clientId, txId, amount>>
    ELSE <<"withdrawal", clientId, txId, amount>>

(* the dispute line with its two fields in each other's place *)
DisputeLine_Swapped(clientId, txId) == <<"dispute", txId, clientId>>

DisputeLine(clientId, txId) == <<"dispute", clientId, txId>>

(* the resolve line with its two fields in each other's place *)
ResolveLine_Swapped(clientId, txId) == <<"resolve", txId, clientId>>

ResolveLine(clientId, txId) == <<"resolve", clientId, txId>>

(* the chargeback block written as a copy of the resolve block *)
ChargebackLine_AsResolve(clientId, txId) == <<"resolve", clientId, txId>>

ChargebackLine(clientId, txId) == <<"chargeback", clientId, txId>>

(* list[0] whatever the index *)
PopValue_First(list, index) == list[1]

(* list.pop(index): the value returned (index is 0-based) *)
PopValue(list, index) == list[index + 1]

(* reading list[index] without removing it *)
PopRest_NoRemove(list, index) == list

(* list.pop(0) whatever the index *)
PopRest_RemovesFirst(list, index) == Tail(list)

(* list.pop(index): the list left behind *)
PopRest(list, index) ==
    [k \in 1..(Len(list) - 1) |-> IF k <= index THEN list[k] ELSE list[k + 1]]

HeaderLine == <<"type", "client", "tx", "amount">>

UsageLine == <<"Usage: generate.py <num_records>">>

EmptyLine == <<"">>

(* The lines print("\n".join(lines)) writes: the join of an empty list is *)
(* the empty string, which print writes as one empty line.                *)
JoinedLines(lines) == IF lines = <<>> THEN <<EmptyLine>> ELSE lines

----------------------------------------------------------------------------
(* Initial state: the process has its arguments and has run nothing *)

Init ==
    /\ argv \in UNION {[1..n -> ArgValues] : n \in 0..MaxArgs}
    /\ pc = "start"
    /\ num_records = 0
    /\ range_next = 0
    /\ tx_id = -1
    /\ client_id = 0
    /\ max_client_id = 0
    /\ disputed_tx_ids = <<>>
    /\ output = <<>>
    /\ stdout = <<>>
    /\ exit_status = -1
    /\ introduced = {}
    /\ branch = "none"

(* len(sys.argv) != 2: usage message and exit(1) *)
UsageError ==
    /\ pc = "start"
    /\ BadArgCount(Len(argv) + 1)
    /\ stdout' = Append(stdout, UsageLine)
    /\ exit_status' = 1
    /\ pc' = "exited"
    /\ UNCHANGED <<argv, num_records, range_next, tx_id, client_id,
                   max_client_id, disputed_tx_ids, output, introduced, branch>>

(* int(sys.argv[1]) raises ValueError, which nothing catches: the process *)
(* ends with status 1 having written nothing to standard output           *)
ParseError ==
    /\ pc = "start"
    /\ ~BadArgCount(Len(argv) + 1)
    /\ ~IntAccepts(argv[1])
    /\ exit_status' = 1
    /\ pc' = "exited"
    /\ UNCHANGED <<argv, num_records, range_next, tx_id, client_id,
                   max_client_id, disputed_tx_ids, output, stdout,
                   introduced, branch>>

(* parse the count, print the header, initialise the generator state *)
Start ==
    /\ pc = "start"
    /\ ~BadArgCount(Len(argv) + 1)
    /\ IntAccepts(argv[1])
    /\ num_records' = int(argv[1])
    /\ stdout' = Append(stdout, HeaderLine)
    /\ client_id' = 0
    /\ max_client_id' = 0
    /\ disputed_tx_ids' = <<>>
    /\ output' = <<>>
    /\ range_next' = 0
    /\ pc' = "loop"
    /\ UNCHANGED <<argv, tx_id, exit_status, introduced, branch>>

(* the new-client branch with its two statements in the other order:    *)
(* client_id += 1, then max_client_id = max(max_client_id, client_id + 1) *)
BaseNewClient_IncrementFirst ==
    /\ pc = "loop"
    /\ InRange(range_next, num_records)
    /\ \E kind \in TransactionKinds, r \in BranchDraws, a \in AmountDraws :
         /\ NewClientDraw(r)
         /\ max_client_id' = Max(max_client_id, client_id + 2)
         /\ client_id' = client_id + 1
         /\ introduced' = introduced \cup {client_id + 1}
         /\ branch' = "new"
         /\ output' = Append(output,
                basic_transactions(kind, client_id + 1, range_next, Amount(a)))
    /\ tx_id' = range_next
    /\ range_next' = range_next + 1
    /\ pc' = "dispute"
    /\ UNCHANGED <<argv, num_records, disputed_tx_ids, stdout, exit_status>>

(* loop head and base transaction, new-client branch *)
BaseNewClient ==
    /\ pc = "loop"
    /\ InRange(range_next, num_records)
    /\ \E kind \in TransactionKinds, r \in BranchDraws, a \in AmountDraws :
         /\ NewClientDraw(r)
         /\ max_client_id' = Max(max_client_id, client_id + 1)
         /\ client_id' = client_id + 1
         /\ introduced' = introduced \cup {client_id + 1}
         /\ branch' = "new"
         /\ output' = Append(output,
                basic_transactions(kind, client_id + 1, range_next, Amount(a)))
    /\ tx_id' = range_next
    /\ range_next' = range_next + 1
    /\ pc' = "dispute"
    /\ UNCHANGED <<argv, num_records, disputed_tx_ids, stdout, exit_status>>

(* randint(0, max_client_id + 1) *)
ReuseClient_OnePast(maxClientId) == randint(0, maxClientId + 1)

(* the client of the reuse branch *)
ReuseClient(maxClientId) == randint(0, maxClientId)

(* loop head and base transaction, reuse branch *)
BaseReuseClient ==
    /\ pc = "loop"
    /\ InRange(range_next, num_records)
    /\ \E kind \in TransactionKinds, r \in BranchDraws, a \in AmountDraws :
         /\ ~NewClientDraw(r)
         /\ \E c \in ReuseClient(max_client_id) :
              /\ client_id' = c
              /\ output' = Append(output,
                     basic_transactions(kind, c, range_next, Amount(a)))
    /\ branch' = "reuse"
    /\ tx_id' = range_next
    /\ range_next' = range_next + 1
    /\ pc' = "dispute"
    /\ UNCHANGED <<argv, num_records, max_client_id, disputed_tx_ids, stdout,
                   exit_status, introduced>>

(* the dispute block appending client_id to the pool *)
Dispute_AppendsClient ==
    /\ pc = "dispute"
    /\ \E r \in BranchDraws : OccasionalDraw(r)
    /\ output' = Append(output, DisputeLine(client_id, tx_id))
    /\ disputed_tx_ids' = Append(disputed_tx_ids, client_id)
    /\ pc' = "resolve"
    /\ UNCHANGED <<argv, num_records, range_next, tx_id, client_id,
                   max_client_id, stdout, exit_status, introduced, branch>>

(* dispute opportunity taken *)
Dispute ==
    /\ pc = "dispute"
    /\ \E r \in BranchDraws : OccasionalDraw(r)
    /\ output' = Append(output, DisputeLine(client_id, tx_id))
    /\ disputed_tx_ids' = Append(disputed_tx_ids, tx_id)
    /\ pc' = "resolve"
    /\ UNCHANGED <<argv, num_records, range_next, tx_id, client_id,
                   max_client_id, stdout, exit_status, introduced, branch>>

(* dispute opportunity not taken *)
NoDispute ==
    /\ pc = "dispute"
    /\ \E r \in BranchDraws : ~OccasionalDraw(r)
    /\ pc' = "resolve"
    /\ UNCHANGED <<argv, num_records, range_next, tx_id, client_id,
                   max_client_id, disputed_tx_ids, output, stdout,
                   exit_status, introduced, branch>>

(* resolve opportunity taken *)
Resolve ==
    /\ pc = "resolve"
    /\ disputed_tx_ids # <<>>
    /\ \E r \in BranchDraws : OccasionalDraw(r)
    /\ \E dispute_index \in randint(0, Len(disputed_tx_ids) - 1) :
         /\ disputed_tx_ids' = PopRest(disputed_tx_ids, dispute_index)
         /\ output' = Append(output,
                ResolveLine(client_id, PopValue(disputed_tx_ids, dispute_index)))
    /\ pc' = "chargeback"
    /\ UNCHANGED <<argv, num_records, range_next, tx_id, client_id,
                   max_client_id, stdout, exit_status, introduced, branch>>

(* resolve opportunity not taken: empty pool, or the draw fails *)
NoResolve ==
    /\ pc = "resolve"
    /\ \/ disputed_tx_ids = <<>>
       \/ \E r \in BranchDraws : ~OccasionalDraw(r)
    /\ pc' = "chargeback"
    /\ UNCHANGED <<argv, num_records, range_next, tx_id, client_id,
                   max_client_id, disputed_tx_ids, output, stdout,
                   exit_status, introduced, branch>>

(* the chargeback block falling back to the current tx on an empty pool *)
Chargeback_FallsBackToCurrent ==
    /\ pc = "chargeback"
    /\ \E r \in BranchDraws : OccasionalDraw(r)
    /\ IF disputed_tx_ids = <<>>
       THEN /\ output' = Append(output, ChargebackLine(client_id, tx_id))
            /\ disputed_tx_ids' = disputed_tx_ids
       ELSE \E dispute_index \in randint(0, Len(disputed_tx_ids) - 1) :
              /\ disputed_tx_ids' = PopRest(disputed_tx_ids, dispute_index)
              /\ output' = Append(output,
                     ChargebackLine(client_id,
                                    PopValue(disputed_tx_ids, dispute_index)))
    /\ pc' = "loop"
    /\ UNCHANGED <<argv, num_records, range_next, tx_id, client_id,
                   max_client_id, stdout, exit_status, introduced, branch>>

(* chargeback opportunity taken *)
Chargeback ==
    /\ pc = "chargeback"
    /\ disputed_tx_ids # <<>>
    /\ \E r \in BranchDraws : OccasionalDraw(r)
    /\ \E dispute_index \in randint(0, Len(disputed_tx_ids) - 1) :
         /\ disputed_tx_ids' = PopRest(disputed_tx_ids, dispute_index)
         /\ output' = Append(output,
                ChargebackLine(client_id, PopValue(disputed_tx_ids, dispute_index)))
    /\ pc' = "loop"
    /\ UNCHANGED <<argv, num_records, range_next, tx_id, client_id,
                   max_client_id, stdout, exit_status, introduced, branch>>

(* chargeback opportunity not taken: empty pool, or the draw fails *)
NoChargeback ==
    /\ pc = "chargeback"
    /\ \/ disputed_tx_ids = <<>>
       \/ \E r \in BranchDraws : ~OccasionalDraw(r)
    /\ pc' = "loop"
    /\ UNCHANGED <<argv, num_records, range_next, tx_id, client_id,
                   max_client_id, disputed_tx_ids, output, stdout,
                   exit_status, introduced, branch>>

(* the range is exhausted: print the joined output and end *)
PrintOutput ==
    /\ pc = "loop"
    /\ ~InRange(range_next, num_records)
    /\ stdout' = stdout \o JoinedLines(output)
    /\ exit_status' = 0
    /\ pc' = "done"
    /\ UNCHANGED <<argv, num_records, range_next, tx_id, client_id,
                   max_client_id, disputed_tx_ids, output, introduced, branch>>

Next ==
    \/ UsageError
    \/ ParseError
    \/ Start
    \/ BaseNewClient
    \/ BaseReuseClient
    \/ Dispute
    \/ NoDispute
    \/ Resolve
    \/ NoResolve
    \/ Chargeback
    \/ NoChargeback
    \/ PrintOutput

Spec == Init /\ [][Next]_vars

(* The interpreter runs the script to its end: a step that can be taken  *)
(* is eventually taken.                                                   *)
FairSpec == Spec /\ WF_vars(Next)

(* One valid invocation with the count LongRun *)
DeepInit ==
    /\ argv = <<Decimal(LongRun)>>
    /\ pc = "start"
    /\ num_records = 0
    /\ range_next = 0
    /\ tx_id = -1
    /\ client_id = 0
    /\ max_client_id = 0
    /\ disputed_tx_ids = <<>>
    /\ output = <<>>
    /\ stdout = <<>>
    /\ exit_status = -1
    /\ introduced = {}
    /\ branch = "none"

(* the steps of a valid invocation *)
DeepNext ==
    \/ Start
    \/ BaseNewClient
    \/ BaseReuseClient
    \/ Dispute
    \/ NoDispute
    \/ Resolve
    \/ NoResolve
    \/ Chargeback
    \/ NoChargeback
    \/ PrintOutput

DeepSpec == DeepInit /\ [][DeepNext]_vars

TypeOK ==
    /\ pc \in {"start", "exited", "loop", "dispute", "resolve", "chargeback", "done"}
    /\ num_records \in (-1)..LongRun
    /\ range_next \in 0..LongRun
    /\ client_id \in 0..LongRun
    /\ max_client_id \in 0..LongRun
    /\ branch \in {"none", "new", "reuse"}
    /\ exit_status \in {-1, 0, 1}

----------------------------------------------------------------------------
(* Reading the records of the output *)

TypeOf(rec) == rec[1]

ClientOf(rec) == rec[2]

TxOf(rec) == rec[3]

IsBase(rec) == TypeOf(rec) \in {"deposit", "withdrawal"}

IsDispute(rec) == TypeOf(rec) = "dispute"

IsClosure(rec) == TypeOf(rec) \in {"resolve", "chargeback"}

BaseRecords == SelectSeq(output, IsBase)

(* position of a record type within a step *)
Rank(rec) ==
    CASE IsBase(rec) -> 1
      [] TypeOf(rec) = "dispute" -> 2
      [] TypeOf(rec) = "resolve" -> 3
      [] TypeOf(rec) = "chargeback" -> 4

(* position within a step of the record the script emits next, if any *)
PcRank ==
    CASE pc = "loop" -> 1
      [] pc = "dispute" -> 2
      [] pc = "resolve" -> 3
      [] pc = "chargeback" -> 4
      [] OTHER -> 0

SetMax(S) == CHOOSE x \in S : \A y \in S : y <= x

PoolSet == {disputed_tx_ids[i] : i \in DOMAIN disputed_tx_ids}

Count(P(_)) == Len(SelectSeq(output, P))

----------------------------------------------------------------------------
(* C1 - Referential integrity: every resolve or chargeback record of the *)
(* output is preceded by a dispute record with the same tx id, and by no  *)
(* resolve or chargeback record with that tx id.                          *)
ReferentialIntegrity ==
    \A i \in DOMAIN output :
        IsClosure(output[i]) =>
            /\ \E j \in 1..(i - 1) :
                   IsDispute(output[j]) /\ TxOf(output[j]) = TxOf(output[i])
            /\ \A k \in 1..(i - 1) :
                   IsClosure(output[k]) => TxOf(output[k]) # TxOf(output[i])

(* a finished run with a resolve and a chargeback, one of them closing a *)
(* dispute opened in an earlier step                                      *)
ReferentialIntegrityWitness ==
    /\ pc = "done"
    /\ \E i, k \in DOMAIN output :
           /\ TypeOf(output[i]) = "resolve"
           /\ TypeOf(output[k]) = "chargeback"
           /\ TxOf(output[i]) # TxOf(output[k])
           /\ TxOf(output[i]) < tx_id

(* C2 - Id monotonicity: the base records carry the tx ids 0, 1, 2, ...  *)
(* in this order, one each, and a finished run of N >= 0 steps has        *)
(* exactly N of them (so exactly the ids 0..N-1).                         *)
IdMonotonicity ==
    /\ \A i \in DOMAIN BaseRecords : TxOf(BaseRecords[i]) = i - 1
    /\ (pc = "done" /\ num_records >= 0) => Len(BaseRecords) = num_records

IdMonotonicityWitness ==
    /\ pc = "done"
    /\ num_records >= 2
    /\ Len(output) > num_records

(* C3 - Output ordering: the output only grows at its end, by the record *)
(* of the current position of the step; the first record is a base        *)
(* transaction and every later record is either the base transaction of   *)
(* the next step or a record that comes later in the step than its        *)
(* predecessor; each step has one base record; N steps give N..4N records *)
OrderingInv ==
    /\ output # <<>> => IsBase(output[1])
    /\ \A i \in 1..(Len(output) - 1) :
           IsBase(output[i + 1]) \/ Rank(output[i]) < Rank(output[i + 1])
    /\ \A i, j \in DOMAIN output :
           (i < j /\ IsBase(output[i]) /\ IsBase(output[j]))
               => TxOf(output[i]) < TxOf(output[j])
    /\ Len(BaseRecords) = range_next
    /\ (pc = "done" /\ num_records >= 0) =>
           /\ num_records <= Len(output)
           /\ Len(output) <= 4 * num_records

AppendsInStepOrder ==
    output' # output =>
        /\ Len(output') = Len(output) + 1
        /\ SubSeq(output', 1, Len(output)) = output
        /\ Rank(output'[Len(output')]) = PcRank

OutputOrdering == []OrderingInv /\ [][AppendsInStepOrder]_vars

(* a finished run with a step that emitted all four records *)
OutputOrderingWitness ==
    /\ pc = "done"
    /\ \E i \in 1..(Len(output) - 3) :
           /\ IsBase(output[i])
           /\ TypeOf(output[i + 1]) = "dispute"
           /\ TypeOf(output[i + 2]) = "resolve"
           /\ TypeOf(output[i + 3]) = "chargeback"

(* C4 as stated - Client bound: in every state, every record emitted so *)
(* far has a client id <= the highest client id the new-client branch     *)
(* has produced so far.                                                   *)
ClientBoundByIntroduced ==
    \A i \in DOMAIN output :
        /\ introduced # {}
        /\ ClientOf(output[i]) <= SetMax(introduced)

(* C4 as amended - Client bound: in every state, every record emitted so *)
(* far has a client id <= the highest client id the new-client branch     *)
(* has produced so far; while that branch has not been taken, every       *)
(* record emitted so far has the client id 0.                             *)
ClientBound ==
    \A i \in DOMAIN output :
        IF introduced = {}
        THEN ClientOf(output[i]) = 0
        ELSE ClientOf(output[i]) <= SetMax(introduced)

(* a finished run of two reuse steps: both records carry client 0 and  *)
(* the new-client branch has not been taken                              *)
ClientBoundWitness ==
    /\ pc = "done"
    /\ num_records = 2
    /\ introduced = {}
    /\ branch = "reuse"
    /\ Len(BaseRecords) = 2
    /\ \E i \in DOMAIN output : IsDispute(output[i])

(* C5 - Every dispute record directly follows the base record of its own *)
(* step and carries that record's tx id and client id; right after the    *)
(* dispute is emitted, its tx id is the entry just added to the pool.     *)
DisputeOfOwnStep ==
    /\ \A i \in DOMAIN output :
           IsDispute(output[i]) =>
               /\ i > 1
               /\ IsBase(output[i - 1])
               /\ TxOf(output[i]) = TxOf(output[i - 1])
               /\ ClientOf(output[i]) = ClientOf(output[i - 1])
    /\ (pc = "resolve" /\ IsDispute(Last(output))) =>
           /\ disputed_tx_ids # <<>>
           /\ Last(disputed_tx_ids) = TxOf(Last(output))
           /\ TxOf(Last(output)) = tx_id

(* a dispute has just been emitted in a step after the first, by a client *)
(* other than 0, onto a pool that held an entry already                   *)
DisputeOfOwnStepWitness ==
    /\ pc = "resolve"
    /\ IsDispute(Last(output))
    /\ Len(disputed_tx_ids) = 2
    /\ ClientOf(Last(output)) # TxOf(Last(output))

(* C6 - Dispute-pool uniqueness: no tx id occurs twice in the pool.      *)
PoolUnique ==
    \A i, j \in DOMAIN disputed_tx_ids :
        i # j => disputed_tx_ids[i] # disputed_tx_ids[j]

PoolUniqueWitness == Len(disputed_tx_ids) >= 2

(* C7 - Pool/output correspondence: the pool holds exactly the tx ids    *)
(* with a dispute record and no resolve or chargeback record so far, and  *)
(* disputes minus closures equals the pool size, which is >= 0.           *)
PoolMatchesOutput ==
    /\ PoolSet = {t \in 0..LongRun :
                   /\ \E i \in DOMAIN output :
                          IsDispute(output[i]) /\ TxOf(output[i]) = t
                   /\ ~\E k \in DOMAIN output :
                          IsClosure(output[k]) /\ TxOf(output[k]) = t}
    /\ Count(IsDispute) - Count(IsClosure) = Len(disputed_tx_ids)
    /\ Count(IsDispute) - Count(IsClosure) >= 0

(* a closure took the later of two open disputes and left the earlier *)
PoolMatchesOutputWitness ==
    /\ Len(disputed_tx_ids) = 1
    /\ \E k \in DOMAIN output :
           IsClosure(output[k]) /\ TxOf(output[k]) > disputed_tx_ids[1]

(* C8 - Scenario N=0: a finished run with count 0 has written the header *)
(* line and nothing else.                                                 *)
HeaderOnlyForZero ==
    (pc = "done" /\ num_records = 0) => stdout = <<HeaderLine>>

(* C9 - Scenario N=1: a finished run with count 1 has exactly one base   *)
(* record, with tx id 0; a dispute record, if present, has tx id 0 and    *)
(* the base record's client id.                                           *)
OneRecordScenario ==
    (pc = "done" /\ num_records = 1) =>
        /\ Len(BaseRecords) = 1
        /\ TxOf(BaseRecords[1]) = 0
        /\ \A i \in DOMAIN output :
               IsDispute(output[i]) =>
                   /\ TxOf(output[i]) = 0
                   /\ ClientOf(output[i]) = ClientOf(BaseRecords[1])

OneRecordScenarioWitness ==
    /\ pc = "done"
    /\ num_records = 1
    /\ \E i \in DOMAIN output :
           IsDispute(output[i]) /\ ClientOf(output[i]) = 1

(* C10 as stated - Scenario N=1: with count 1 no resolve and no          *)
(* chargeback record is emitted.                                          *)
NoClosureForOne ==
    num_records = 1 => \A i \in DOMAIN output : ~IsClosure(output[i])

(* C10 as amended - Scenario N=1: with count 1 a resolve or chargeback   *)
(* record is emitted only after the dispute record of tx 0; at most one   *)
(* of them is emitted, and it carries tx id 0 and the client id of the    *)
(* base record.                                                           *)
ClosureForOneOnlyAfterDispute ==
    num_records = 1 =>
        /\ Count(IsClosure) <= 1
        /\ \A i \in DOMAIN output :
               IsClosure(output[i]) =>
                   /\ i = 3
                   /\ IsDispute(output[2])
                   /\ TxOf(output[i]) = 0
                   /\ ClientOf(output[i]) = ClientOf(output[1])

ClosureForOneWitness ==
    /\ pc = "done"
    /\ num_records = 1
    /\ Len(output) = 3
    /\ TypeOf(output[3]) = "chargeback"

----------------------------------------------------------------------------
IsHeader(line) == TypeOf(line) = "type"

IsUsage(line) == line = UsageLine

(* C11 - Invalid invocation: with a number of arguments other than 1 the *)
(* program runs no generator step and emits no record, never writes the   *)
(* header line, and ends having written the usage message with a          *)
(* non-zero exit status.                                                  *)
InvalidInvocation ==
    Len(argv) # 1 =>
        /\ pc \in {"start", "exited"}
        /\ output = <<>>
        /\ range_next = 0
        /\ tx_id = -1
        /\ \A i \in DOMAIN stdout : ~IsHeader(stdout[i])
        /\ pc = "start" => (stdout = <<>> /\ exit_status = -1)
        /\ pc = "exited" => (stdout = <<UsageLine>> /\ exit_status > 0)

InvalidInvocationWitness ==
    /\ Len(argv) = 2
    /\ pc = "exited"
    /\ exit_status = 1

(* C12 - Amount bounds: every amount on a base record lies in            *)
(* [100.0000, 200.0000), in units of 10^-4.                               *)
AmountBounds ==
    \A i \in DOMAIN output :
        IsBase(output[i]) =>
            /\ 100 * 10^4 <= output[i][4]
            /\ output[i][4] < 200 * 10^4

(* C13 - Termination: the script eventually ends, and a run that ends    *)
(* normally with count N >= 0 has executed exactly N steps and written    *)
(* its output after the header.                                           *)
EndedNormally ==
    pc = "done" =>
        /\ num_records >= 0 => range_next = num_records
        /\ Len(BaseRecords) = range_next
        /\ exit_status = 0
        /\ stdout = <<HeaderLine>> \o JoinedLines(output)

Termination == <>(pc \in {"done", "exited"}) /\ []EndedNormally

TerminationWitness ==
    /\ pc = "done"
    /\ num_records = MaxRecords
    /\ range_next = MaxRecords
    /\ Len(output) > MaxRecords

----------------------------------------------------------------------------
(* a step of the script that runs the client selection of the given branch *)
SelectsClient(b) == pc = "loop" /\ pc' = "dispute" /\ branch' = b

ClientsOn(records) == {ClientOf(records[i]) : i \in DOMAIN records}

(* C14 - clientCursor monotonicity: no step lowers client_id.            *)
CursorMonotonic == [][client_id' >= client_id]_vars

(* C15 - maxClientId is the highest client id ever used: once a record   *)
(* is emitted, max_client_id is the largest client id on the records      *)
(* emitted so far; client_id never exceeds max_client_id.                 *)
MaxClientIsHighestUsed ==
    /\ client_id <= max_client_id
    /\ output # <<>> => max_client_id = SetMax(ClientsOn(output))

(* the reuse branch went back below the highest client *)
MaxClientIsHighestUsedWitness ==
    /\ pc = "done"
    /\ branch = "reuse"
    /\ client_id < max_client_id
    /\ max_client_id = SetMax(ClientsOn(output))

(* C16 - Client-pool growth: a step leaves max_client_id unchanged or    *)
(* raises it by 1, the reuse branch leaves it unchanged, and after k      *)
(* steps max_client_id <= k.                                              *)
GrowsByAtMostOne ==
    /\ max_client_id' \in {max_client_id, max_client_id + 1}
    /\ SelectsClient("reuse") => max_client_id' = max_client_id

ClientPoolGrowth == [](max_client_id <= range_next) /\ [][GrowsByAtMostOne]_vars

(* max_client_id grew in a new-client step and stayed in a reuse step *)
ClientPoolGrowthWitness ==
    /\ branch = "reuse"
    /\ range_next = 2
    /\ max_client_id = 1
    /\ client_id = 1

(* C17 - New-client branch introduces a new client: a step of the        *)
(* new-client branch acts as the incremented cursor, a client id on no    *)
(* record emitted before the step.                                        *)
NewClientStepIsFresh ==
    SelectsClient("new") =>
        /\ client_id' = client_id + 1
        /\ client_id' \notin ClientsOn(output)

NewClientIsNew == [][NewClientStepIsFresh]_vars

(* the base record that opens the step of the record at position i *)
BaseOfStep(i) ==
    LET j == CHOOSE j \in 1..i :
                 /\ IsBase(output[j])
                 /\ \A k \in (j + 1)..i : ~IsBase(output[k])
    IN  output[j]

(* C18 - Closure client: every resolve and every chargeback record       *)
(* carries the client id of the latest base record before it.             *)
ClosureClient ==
    \A i \in DOMAIN output :
        IsClosure(output[i]) => ClientOf(output[i]) = ClientOf(BaseOfStep(i))

(* a closure whose client differs from the client on the dispute record *)
(* of the tx id it closes                                                *)
ClosureClientWitness ==
    \E i, j \in DOMAIN output :
        /\ IsClosure(output[i])
        /\ IsDispute(output[j])
        /\ TxOf(output[j]) = TxOf(output[i])
        /\ ClientOf(output[j]) # ClientOf(output[i])
        /\ ClientOf(output[i]) # TxOf(output[i])

(* C19 - Empty-pool fallback: the pool shrinks only from a non-empty     *)
(* pool, by one entry, at the resolve or chargeback opportunity; an       *)
(* opportunity that finds the pool empty emits nothing and leaves the     *)
(* pool, client_id and max_client_id unchanged.                           *)
EmptyPoolStep ==
    /\ Len(disputed_tx_ids') < Len(disputed_tx_ids) =>
           /\ disputed_tx_ids # <<>>
           /\ pc \in {"resolve", "chargeback"}
           /\ Len(disputed_tx_ids') = Len(disputed_tx_ids) - 1
           /\ Len(output') = Len(output) + 1
    /\ (pc \in {"resolve", "chargeback"} /\ disputed_tx_ids = <<>>) =>
           /\ output' = output
           /\ disputed_tx_ids' = disputed_tx_ids
           /\ client_id' = client_id
           /\ max_client_id' = max_client_id

EmptyPoolFallback == [][EmptyPoolStep]_vars

(* the chargeback opportunity has passed on the pool that the resolve of *)
(* the same step emptied                                                  *)
EmptyPoolFallbackWitness ==
    /\ pc = "loop"
    /\ range_next >= 1
    /\ disputed_tx_ids = <<>>
    /\ TypeOf(Last(output)) = "resolve"

(* C20 - Single dispute episode per transaction: no tx id is on two      *)
(* dispute records or on two closing records, and no tx id with a         *)
(* closing record is in the pool.                                         *)
SingleEpisode ==
    /\ \A i, j \in DOMAIN output :
           (i # j /\ IsDispute(output[i]) /\ IsDispute(output[j]))
               => TxOf(output[i]) # TxOf(output[j])
    /\ \A i, j \in DOMAIN output :
           (i # j /\ IsClosure(output[i]) /\ IsClosure(output[j]))
               => TxOf(output[i]) # TxOf(output[j])
    /\ \A i \in DOMAIN output :
           IsClosure(output[i]) => TxOf(output[i]) \notin PoolSet

(* one tx id resolved and another charged back, with a dispute opened *)
(* after a closure                                                     *)
SingleEpisodeWitness ==
    /\ pc = "done"
    /\ Count(IsDispute) >= 2
    /\ Count(IsClosure) >= 2
    /\ \E i, j \in DOMAIN output :
           i < j /\ IsClosure(output[i]) /\ IsDispute(output[j])
====
